---- MODULE Spec2Model ----
(***************************************************************************)
(* The resource model of the fimfiction API client (src/src/resources.rs)  *)
(* and its response envelopes (src/src/application.rs), as the serde       *)
(* derives on those types decode and encode them.                          *)
(*                                                                         *)
(* A JSON document is a tagged record; a Rust value is a TLA+ value of the *)
(* matching shape (a struct is a function from its field names, an         *)
(* Option is a sequence of length 0 or 1, a Vec is a sequence, an enum     *)
(* member is its variant's name).                                          *)
(***************************************************************************)
EXTENDS Integers, Sequences, FiniteSets, TLC

VARIABLES pc, target, wire, value, result, unit_from_empty_map

vars == <<pc, target, wire, value, result, unit_from_empty_map>>

(***************************************************************************)
(* JSON                                                                    *)
(***************************************************************************)
JNull == [k |-> "null"]
JBool(b) == [k |-> "bool", b |-> b]
JNum(n) == [k |-> "num", n |-> n]
JStr(s) == [k |-> "str", s |-> s]
JArr(a) == [k |-> "arr", a |-> a]
JObj(o) == [k |-> "obj", o |-> o]
NoFields == [x \in {} |-> JNull]
EmptyObj == JObj(NoFields)

Put(j, key, v) == JObj([x \in (DOMAIN j.o) \cup {key} |-> IF x = key THEN v ELSE j.o[x]])
Drop(j, key) == JObj([x \in (DOMAIN j.o) \ {key} |-> j.o[x]])
Has(j, key) == j.k = "obj" /\ key \in DOMAIN j.o

(***************************************************************************)
(* Rust values                                                             *)
(***************************************************************************)
None == << >>
Some(x) == <<x>>

UnitValue == [unit |-> TRUE]

Ok(v) == [ok |-> TRUE, v |-> v]
Err(e) == [ok |-> FALSE, e |-> e]

(***************************************************************************)
(* Types: every Deserialize/Serialize impl the derives produce is driven   *)
(* by the type it is derived on.                                           *)
(***************************************************************************)
Prim(n) == [c |-> "prim", n |-> n]
Enum(n) == [c |-> "enum", n |-> n]
Struct(n) == [c |-> "struct", n |-> n]
Option(t) == [c |-> "Option", of |-> t]
Vec(t) == [c |-> "Vec", of |-> t]
Array(t, n) == [c |-> "array", of |-> t, len |-> n]
HashMap(t) == [c |-> "HashMap", of |-> t]

String == Prim("String")
U32 == Prim("u32")
U8 == Prim("u8")
Bool == Prim("bool")
DateTime == Prim("DateTime<Utc>")
Url == Prim("Url")
Value == Prim("Value")
Unit == Prim("()")

\* u32 ends above every integer of the model (TLC's integers end at
\* 2^31 - 1), so only its lower end is a check here.
U8Max == 255

\* A field of a derived struct: its Rust name, its key on the wire
\* (#[serde(rename)]), its type, #[serde(default)], #[serde(with)].
Field(f, key, ty, default, with) == [f |-> f, key |-> key, ty |-> ty, default |-> default, with |-> with]
F(f, ty) == Field(f, f, ty, FALSE, FALSE)
UrlField(f, key) == Field(f, key, Url, FALSE, TRUE)

Data(t) == [c |-> "Data", of |-> t]
TypedResource(attr, rel) == [c |-> "TypedResource", attr |-> attr, rel |-> rel]
TypedApiResponse(t) == [c |-> "TypedApiResponse", of |-> t]
ResourceT == [c |-> "Resource"]

ResourceId == Struct("ResourceId")
Avatar == Struct("Avatar")
Color == Struct("Color")
CoverImage == Struct("CoverImage")
Icon == Struct("Icon")

DataFields(t) == << F("data", t) >>

ResourceIdFields ==
    << Field("type_", "type", String, FALSE, FALSE), F("id", String) >>

\* TypedResource<Attr, Rel>.
TypedResourceFields(attr, rel) ==
    << F("id", String),
       F("attributes", attr),
       F("relationships", Option(rel)),
       Field("links", "links", HashMap(Url), TRUE, FALSE),
       Field("meta", "meta", HashMap(Value), TRUE, FALSE) >>

\* Avatar: 16 and 192 are Option with a default, the other eight are not.
AvatarFields ==
    << Field("size16", "16", Option(Url), TRUE, TRUE),
       UrlField("size32", "32"),
       UrlField("size48", "48"),
       UrlField("size64", "64"),
       UrlField("size96", "96"),
       UrlField("size128", "128"),
       Field("size192", "192", Option(Url), TRUE, TRUE),
       UrlField("size256", "256"),
       UrlField("size384", "384"),
       UrlField("size512", "512") >>

ColorFields == << F("hex", String), F("rgb", Array(U8, 3)) >>

CoverImageFields ==
    << UrlField("thumbnail", "thumbnail"), UrlField("medium", "medium"),
       UrlField("large", "large"), UrlField("full", "full") >>

IconFields ==
    << F("name", String), Field("type_", "type", String, FALSE, FALSE), F("data", String) >>

BlogPostAttributesFields ==
    << F("title", String), F("date_posted", DateTime), F("intro", Option(String)),
       F("content_html", Option(String)), F("num_views", U32), F("num_comments", U32),
       F("site_post", Bool), F("site_post_tag", Option(String)), F("tags", Vec(String)) >>

BlogPostRelationshipsFields ==
    << F("author", Data(ResourceId)), F("tagged_story", Data(ResourceId)) >>

BookshelfAttributesFields ==
    << F("name", String), F("privacy", Enum("Privacy")), F("description", String),
       F("color", String), F("icon", Icon), F("num_stories", U32), F("num_unread", U32),
       F("track_unread", Bool), F("quick_add", Bool), F("email_on_update", Bool),
       F("date_created", DateTime), F("date_modified", DateTime), F("order", U32) >>

BookshelfRelationshipsFields == << F("user", Data(ResourceId)) >>

ChapterAttributesFields ==
    << F("chapter_number", U32), F("title", String), F("published", Bool),
       F("num_views", U32), F("date_published", DateTime), F("date_modified", DateTime),
       F("content", Option(String)), F("content_html", Option(String)),
       F("authors_note_html", Option(String)), F("authors_note_position", Enum("Position")) >>

ChapterRelationshipsFields == << F("story", Data(ResourceId)) >>

FollowAttributesFields == << F("date_followed", DateTime) >>

FollowRelationshipsFields ==
    << F("user", Data(ResourceId)), F("following", Data(ResourceId)) >>

GroupAttributesFields ==
    << F("name", String), F("description", String), F("description_html", String),
       F("num_members", U32), F("num_stories", U32), F("nsfw", Bool), F("open", Bool),
       F("hidden", Bool), F("date_created", DateTime), F("icon", Avatar) >>

GroupRelationshipsFields == << F("founder", Data(ResourceId)) >>

GroupThreadAttributesFields ==
    << F("title", String), F("num_posts", U32), F("date_created", DateTime),
       F("date_last_posted", DateTime), F("sticky", Bool), F("locked", Bool) >>

GroupThreadRelationshipsFields ==
    << F("creator", Data(ResourceId)), F("group", Data(ResourceId)),
       F("last_poster", Data(ResourceId)) >>

PrivateMessageAttributesFields ==
    << F("subject", String), F("content_html", String), F("date_sent", DateTime),
       F("read", Bool) >>

PrivateMessageRelationshipsFields ==
    << F("sender", Data(Struct("UserAttributes"))),
       F("receiver", Data(Struct("UserAttributes"))) >>

StoryAttributesFields ==
    << F("title", String), F("short_description", String), F("description", String),
       F("description_html", String), F("published", Bool),
       F("status", Enum("PublishStatus")), F("submitted", Bool),
       F("date_published", DateTime), F("date_modified", DateTime),
       F("date_updated", DateTime), F("num_views", U32), F("total_num_views", U32),
       F("num_words", U32), F("num_comments", U32), F("color", Color),
       F("cover_image", CoverImage), F("num_chapters", U32), F("rating", U32),
       F("completion_status", Enum("CompletionStatus")),
       F("content_rating", Enum("ContentRating")), F("num_likes", U32),
       F("num_dislikes", U32) >>

StoryRelationshipsFields ==
    << F("author", Data(ResourceId)), F("tags", Data(Vec(ResourceId))) >>

StoryTagAttributesFields ==
    << F("name", String), F("description", Option(String)),
       Field("type_", "type", Enum("TagType"), FALSE, FALSE), F("num_stories", U32) >>

UserAttributesFields ==
    << F("name", String), F("bio_html", String), F("num_followers", U32),
       F("num_stories", U32), F("num_blog_posts", U32), F("date_joined", DateTime),
       F("avatar", Avatar), F("color", Color), F("date_last_online", Option(DateTime)) >>

ApiResponseFields ==
    << F("data", ResourceT), F("included", Vec(ResourceT)), F("uri", String),
       F("method", String), F("debug", HashMap(Value)) >>

TypedApiResponseFields(t) ==
    << F("data", t), F("included", Vec(ResourceT)), F("uri", String),
       F("method", String), F("debug", HashMap(Value)) >>

StructFields(n) ==
    CASE n = "ResourceId" -> ResourceIdFields
      [] n = "Avatar" -> AvatarFields
      [] n = "Color" -> ColorFields
      [] n = "CoverImage" -> CoverImageFields
      [] n = "Icon" -> IconFields
      [] n = "BlogPostAttributes" -> BlogPostAttributesFields
      [] n = "BlogPostRelationships" -> BlogPostRelationshipsFields
      [] n = "BookshelfAttributes" -> BookshelfAttributesFields
      [] n = "BookshelfRelationships" -> BookshelfRelationshipsFields
      [] n = "ChapterAttributes" -> ChapterAttributesFields
      [] n = "ChapterRelationships" -> ChapterRelationshipsFields
      [] n = "FollowAttributes" -> FollowAttributesFields
      [] n = "FollowRelationships" -> FollowRelationshipsFields
      [] n = "GroupAttributes" -> GroupAttributesFields
      [] n = "GroupRelationships" -> GroupRelationshipsFields
      [] n = "GroupThreadAttributes" -> GroupThreadAttributesFields
      [] n = "GroupThreadRelationships" -> GroupThreadRelationshipsFields
      [] n = "PrivateMessageAttributes" -> PrivateMessageAttributesFields
      [] n = "PrivateMessageRelationships" -> PrivateMessageRelationshipsFields
      [] n = "StoryAttributes" -> StoryAttributesFields
      [] n = "StoryRelationships" -> StoryRelationshipsFields
      [] n = "StoryTagAttributes" -> StoryTagAttributesFields
      [] n = "UserAttributes" -> UserAttributesFields
      [] n = "ApiResponse" -> ApiResponseFields

\* The fields of any struct-like type.
Fields(ty) ==
    CASE ty.c = "struct" -> StructFields(ty.n)
      [] ty.c = "Data" -> DataFields(ty.of)
      [] ty.c = "TypedResource" -> TypedResourceFields(ty.attr, ty.rel)
      [] ty.c = "TypedApiResponse" -> TypedApiResponseFields(ty.of)

IsStruct(ty) == ty.c \in {"struct", "Data", "TypedResource", "TypedApiResponse"}

(***************************************************************************)
(* Enumerations: #[serde(rename_all="snake_case")] on the variant names.   *)
(***************************************************************************)
PositionVariants ==
    << <<"T","o","p">>,
       <<"B","o","t","t","o","m">> >>

PrivacyVariants ==
    << <<"P","r","i","v","a","t","e">>,
       <<"U","n","l","i","s","t","e","d">>,
       <<"P","u","b","l","i","c">> >>

PublishStatusVariants ==
    << <<"V","i","s","i","b","l","e">>,
       <<"N","o","t","V","i","s","i","b","l","e">>,
       <<"A","p","p","r","o","v","e","Q","u","e","u","e">>,
       <<"P","o","s","t","Q","u","e","u","e">> >>

CompletionStatusVariants ==
    << <<"I","n","c","o","m","p","l","e","t","e">>,
       <<"C","o","m","p","l","e","t","e">>,
       <<"H","i","a","t","u","s">>,
       <<"C","a","n","c","e","l","l","e","d">> >>

ContentRatingVariants ==
    << <<"E","v","e","r","y","o","n","e">>,
       <<"T","e","e","n">>,
       <<"M","a","t","u","r","e">> >>

TagTypeVariants ==
    << <<"C","h","a","r","a","c","t","e","r">>,
       <<"G","e","n","r","e">>,
       <<"R","a","t","i","n","g">>,
       <<"C","o","n","t","e","n","t">>,
       <<"S","e","r","i","e","s">>,
       <<"W","a","r","n","i","n","g">>,
       <<"U","n","i","v","e","r","s","e">> >>

ResourceVariants ==
    << <<"B","l","o","g","P","o","s","t">>,
       <<"B","o","o","k","s","h","e","l","f">>,
       <<"C","h","a","p","t","e","r">>,
       <<"F","o","l","l","o","w">>,
       <<"G","r","o","u","p">>,
       <<"G","r","o","u","p","T","h","r","e","a","d">>,
       <<"P","r","i","v","a","t","e","M","e","s","s","a","g","e">>,
       <<"S","t","o","r","y">>,
       <<"S","t","o","r","y","T","a","g">>,
       <<"U","s","e","r">> >>

EnumVariants(n) ==
    CASE n = "Position" -> PositionVariants
      [] n = "Privacy" -> PrivacyVariants
      [] n = "PublishStatus" -> PublishStatusVariants
      [] n = "CompletionStatus" -> CompletionStatusVariants
      [] n = "ContentRating" -> ContentRatingVariants
      [] n = "TagType" -> TagTypeVariants
      [] n = "Resource" -> ResourceVariants

EnumNames == {"Position", "Privacy", "PublishStatus", "CompletionStatus", "ContentRating", "TagType"}

UpperChars == <<"A","B","C","D","E","F","G","H","I","J","K","L","M","N","O","P","Q","R","S","T","U","V","W","X","Y","Z">>
LowerChars == <<"a","b","c","d","e","f","g","h","i","j","k","l","m","n","o","p","q","r","s","t","u","v","w","x","y","z">>
IsUpper(ch) == \E i \in DOMAIN UpperChars : UpperChars[i] = ch
ToLower(ch) == IF IsUpper(ch) THEN LowerChars[CHOOSE i \in DOMAIN UpperChars : UpperChars[i] = ch] ELSE ch

\* The text of a sequence of characters.
RECURSIVE Text(_)
Text(cs) == IF cs = << >> THEN "" ELSE cs[1] \o Text(Tail(cs))

\* rename_all = "snake_case": an underscore before every upper-case
\* character but the first, every character lower-cased.
RECURSIVE SnakeCaseFrom(_, _)
SnakeCaseFrom(ident, i) ==
    IF i > Len(ident) THEN << >>
    ELSE (IF i > 1 /\ IsUpper(ident[i]) THEN <<"_">> ELSE << >>)
         \o <<ToLower(ident[i])>> \o SnakeCaseFrom(ident, i + 1)
SnakeCase(ident) == SnakeCaseFrom(ident, 1)

\* The name of a variant on the wire.
WireName(ident) == Text(SnakeCase(ident))

(***************************************************************************)
(* Text forms of the foreign types: chrono's DateTime<Utc> (RFC 3339 in,   *)
(* converted to UTC; "...Z" out) and url's Url (parsed and normalised in,  *)
(* the normalised text out), on the texts the model sends.                 *)
(***************************************************************************)
DateTimeFromStr(s) ==
    CASE s = "2017-01-01T00:00:00Z" -> Ok("2017-01-01T00:00:00Z")
      [] s = "2017-01-01T01:00:00+01:00" -> Ok("2017-01-01T00:00:00Z")
      [] s = "2018-06-30T12:00:00+00:00" -> Ok("2018-06-30T12:00:00Z")
      [] s = "2018-06-30T12:00:00Z" -> Ok("2018-06-30T12:00:00Z")
      [] OTHER -> Err("invalid date-time")

UrlParse(s) ==
    CASE s = "https://a.example/x.png" -> Ok("https://a.example/x.png")
      [] s = "https://a.example" -> Ok("https://a.example/")
      [] s = "https://a.example/" -> Ok("https://a.example/")
      [] s = "HTTPS://A.example/y" -> Ok("https://a.example/y")
      [] s = "https://a.example/y" -> Ok("https://a.example/y")
      [] OTHER -> Err("invalid url")

(***************************************************************************)
(* The resource kinds: the type aliases of resources.rs.                   *)
(***************************************************************************)
BlogPost == TypedResource(Struct("BlogPostAttributes"), Struct("BlogPostRelationships"))
Bookshelf == TypedResource(Struct("BookshelfAttributes"), Struct("BookshelfRelationships"))
Chapter == TypedResource(Struct("ChapterAttributes"), Struct("ChapterRelationships"))
Follow == TypedResource(Struct("FollowAttributes"), Struct("FollowRelationships"))
Group == TypedResource(Struct("GroupAttributes"), Struct("GroupRelationships"))
GroupThread == TypedResource(Struct("GroupThreadAttributes"), Struct("GroupThreadRelationships"))
PrivateMessage == TypedResource(Struct("PrivateMessageAttributes"), Struct("PrivateMessageRelationships"))
Story == TypedResource(Struct("StoryAttributes"), Struct("StoryRelationships"))
StoryTag == TypedResource(Struct("StoryTagAttributes"), Unit)
User == TypedResource(Struct("UserAttributes"), Unit)

\* The payload type of each variant of Resource.
VariantType(name) ==
    CASE name = "BlogPost" -> BlogPost
      [] name = "Bookshelf" -> Bookshelf
      [] name = "Chapter" -> Chapter
      [] name = "Follow" -> Follow
      [] name = "Group" -> Group
      [] name = "GroupThread" -> GroupThread
      [] name = "PrivateMessage" -> PrivateMessage
      [] name = "Story" -> Story
      [] name = "StoryTag" -> StoryTag
      [] name = "User" -> User

Kinds == {Text(ResourceVariants[i]) : i \in DOMAIN ResourceVariants}

(***************************************************************************)
(* Deserialize                                                             *)
(*                                                                         *)
(* buffered: the value is read from serde's buffered Content (everything   *)
(* inside an internally tagged enum) rather than from the JSON text.       *)
(***************************************************************************)
RECURSIVE DeType(_, _, _)

FirstErr(rs) == rs[CHOOSE i \in DOMAIN rs : ~rs[i].ok /\ \A j \in 1..(i - 1) : rs[j].ok]
AllOk(rs) == \A i \in DOMAIN rs : rs[i].ok
Vals(rs) == [i \in DOMAIN rs |-> rs[i].v]

\* (): JSON null; from buffered Content, newer serde releases also take
\* the empty map.
DeUnit(j, buffered) ==
    IF j = JNull \/ (buffered /\ unit_from_empty_map /\ j = EmptyObj)
    THEN Ok(UnitValue)
    ELSE Err("invalid type")

DePrim(n, j, buffered) ==
    CASE n = "String" -> IF j.k = "str" THEN Ok(j.s) ELSE Err("invalid type")
      [] n = "u32" -> IF j.k = "num" /\ j.n >= 0 THEN Ok(j.n) ELSE Err("invalid value")
      [] n = "u8" -> IF j.k = "num" /\ j.n >= 0 /\ j.n <= U8Max THEN Ok(j.n) ELSE Err("invalid value")
      [] n = "bool" -> IF j.k = "bool" THEN Ok(j.b) ELSE Err("invalid type")
      [] n = "DateTime<Utc>" -> IF j.k = "str" THEN DateTimeFromStr(j.s) ELSE Err("invalid type")
      [] n = "Url" -> IF j.k = "str" THEN UrlParse(j.s) ELSE Err("invalid type")
      [] n = "Value" -> Ok(j)
      [] n = "()" -> DeUnit(j, buffered)

\* An enumeration that falls back to its first variant.
DeEnum_Default(n, j, buffered) ==
    LET vs == EnumVariants(n)
        hit == {i \in DOMAIN vs : j.k = "str" /\ WireName(vs[i]) = j.s}
    IN  IF hit # {} THEN Ok(Text(vs[CHOOSE i \in hit : TRUE])) ELSE Ok(Text(vs[1]))

\* A unit-variant enumeration: the variant's wire name as a string, or a
\* one-key map from it to a unit.
DeEnum(n, j, buffered) ==
    LET vs == EnumVariants(n)
        named(s) == {i \in DOMAIN vs : WireName(vs[i]) = s}
        pick(s) == Text(vs[CHOOSE i \in named(s) : TRUE])
    IN  CASE j.k = "str" ->
                IF named(j.s) # {} THEN Ok(pick(j.s)) ELSE Err("unknown variant")
          [] j.k = "obj" /\ Cardinality(DOMAIN j.o) = 1 ->
                LET key == CHOOSE x \in DOMAIN j.o : TRUE
                IN  IF named(key) = {} THEN Err("unknown variant")
                    ELSE IF DeUnit(j.o[key], buffered).ok THEN Ok(pick(key))
                    ELSE Err("invalid type")
          [] OTHER -> Err("invalid type")

\* An Option that reads the empty string as None.
DeOption_EmptyAsNone(of, j, buffered) ==
    IF j = JNull \/ (of = String /\ j = JStr("")) THEN Ok(None)
    ELSE LET r == DeType(of, j, buffered)
         IN  IF r.ok THEN Ok(Some(r.v)) ELSE r

\* Option<T>: null is None, anything else is Some of what T reads.
DeOption(of, j, buffered) ==
    IF j = JNull THEN Ok(None)
    ELSE LET r == DeType(of, j, buffered)
         IN  IF r.ok THEN Ok(Some(r.v)) ELSE r

\* A sequence whose undecodable elements are left out.
DeVec_SkipFailed(of, j, buffered) ==
    IF j.k # "arr" THEN Err("invalid type")
    ELSE LET rs == [i \in DOMAIN j.a |-> DeType(of, j.a[i], buffered)]
         IN  Ok(Vals(SelectSeq(rs, LAMBDA r : r.ok)))

DeVec(of, j, buffered) ==
    IF j.k # "arr" THEN Err("invalid type")
    ELSE LET rs == [i \in DOMAIN j.a |-> DeType(of, j.a[i], buffered)]
         IN  IF AllOk(rs) THEN Ok(Vals(rs)) ELSE FirstErr(rs)

DeArray(of, len, j, buffered) ==
    IF j.k # "arr" THEN Err("invalid type")
    ELSE IF Len(j.a) # len THEN Err("invalid length")
    ELSE DeVec(of, j, buffered)

DeHashMap(of, j, buffered) ==
    IF j.k # "obj" THEN Err("invalid type")
    ELSE LET rs == [x \in DOMAIN j.o |-> DeType(of, j.o[x], buffered)]
         IN  IF \A x \in DOMAIN rs : rs[x].ok
             THEN Ok([x \in DOMAIN rs |-> rs[x].v])
             ELSE rs[CHOOSE x \in DOMAIN rs : ~rs[x].ok]

DefaultOf(ty) ==
    CASE ty.c = "Option" -> None
      [] ty.c = "HashMap" -> NoFields

\* A missing field that is an error even where it is a plain Option.
DeMissing_OptionRequired(fld) ==
    IF fld.default THEN Ok(DefaultOf(fld.ty))
    ELSE Err("missing field " \o fld.key)

\* A missing field whose default is not used where it is read through
\* with = "url_serde".
DeMissing_WithoutDefault(fld) ==
    IF fld.default /\ ~fld.with THEN Ok(DefaultOf(fld.ty))
    ELSE IF fld.ty.c = "Option" /\ ~fld.with THEN Ok(None)
    ELSE Err("missing field " \o fld.key)

\* A field the map does not hold: its default when it has one, None for
\* a plain Option, an error otherwise.
DeMissing(fld) ==
    IF fld.default THEN Ok(DefaultOf(fld.ty))
    ELSE IF fld.ty.c = "Option" /\ ~fld.with THEN Ok(None)
    ELSE Err("missing field " \o fld.key)

DeField(fld, j, buffered) ==
    IF fld.key \in DOMAIN j.o THEN DeType(fld.ty, j.o[fld.key], buffered)
    ELSE DeMissing(fld)

\* The i-th field of a struct written as a sequence.
DeElement(fld, a, i, buffered) ==
    IF i <= Len(a) THEN DeType(fld.ty, a[i], buffered)
    ELSE IF fld.default THEN Ok(DefaultOf(fld.ty))
    ELSE Err("invalid length")

\* A derived struct that refuses a map without a type key where the
\* struct is a TypedResource.
DeStruct_TypeRequired(ty, j, buffered) ==
    LET fs == Fields(ty)
        rs == IF j.k = "obj"
              THEN [i \in DOMAIN fs |-> DeField(fs[i], j, buffered)]
              ELSE [i \in DOMAIN fs |-> DeElement(fs[i], j.a, i, buffered)]
    IN  IF j.k \notin {"obj", "arr"} THEN Err("invalid type")
        ELSE IF ty.c = "TypedResource" /\ j.k = "obj" /\ ~Has(j, "type")
             THEN Err("missing field type")
        ELSE IF ~AllOk(rs) THEN FirstErr(rs)
        ELSE IF j.k = "arr" /\ Len(j.a) > Len(fs) THEN Err("invalid length")
        ELSE Ok([f \in {fs[i].f : i \in DOMAIN fs} |->
                    rs[CHOOSE i \in DOMAIN fs : fs[i].f = f].v])

\* A derived struct: from a map by key (unknown keys are skipped), or
\* from a sequence by position.
DeStruct(ty, j, buffered) ==
    LET fs == Fields(ty)
        rs == IF j.k = "obj"
              THEN [i \in DOMAIN fs |-> DeField(fs[i], j, buffered)]
              ELSE [i \in DOMAIN fs |-> DeElement(fs[i], j.a, i, buffered)]
    IN  IF j.k \notin {"obj", "arr"} THEN Err("invalid type")
        ELSE IF ~AllOk(rs) THEN FirstErr(rs)
        ELSE IF j.k = "arr" /\ Len(j.a) > Len(fs) THEN Err("invalid length")
        ELSE Ok([f \in {fs[i].f : i \in DOMAIN fs} |->
                    rs[CHOOSE i \in DOMAIN fs : fs[i].f = f].v])

\* A tag matched by the variant's own name as well.
VariantOfTag_AnyCase(tag) ==
    LET hit == {i \in DOMAIN ResourceVariants :
                   tag.k = "str" /\ tag.s \in {WireName(ResourceVariants[i]), Text(ResourceVariants[i])}}
    IN  IF hit = {} THEN Err("unknown variant")
        ELSE Ok(Text(ResourceVariants[CHOOSE i \in hit : TRUE]))

\* The variant a tag names.
VariantOfTag(tag) ==
    LET hit == {i \in DOMAIN ResourceVariants :
                   tag.k = "str" /\ WireName(ResourceVariants[i]) = tag.s}
    IN  IF tag.k # "str" THEN Err("invalid type")
        ELSE IF hit = {} THEN Err("unknown variant")
        ELSE Ok(Text(ResourceVariants[CHOOSE i \in hit : TRUE]))

\* Resource, #[serde(tag="type")]: the tag is taken out of the map (or
\* off the front of the sequence), the rest is buffered and read as the
\* payload of the variant the tag names.
DeResource(j) ==
    LET tagged ==
            CASE j.k = "obj" /\ "type" \in DOMAIN j.o -> Ok([tag |-> j.o["type"], rest |-> Drop(j, "type")])
              [] j.k = "obj" -> Err("missing field type")
              [] j.k = "arr" /\ Len(j.a) > 0 -> Ok([tag |-> j.a[1], rest |-> JArr(Tail(j.a))])
              [] j.k = "arr" -> Err("missing field type")
              [] OTHER -> Err("invalid type")
    IN  IF ~tagged.ok THEN tagged
        ELSE LET variant == VariantOfTag(tagged.v.tag)
             IN  IF ~variant.ok THEN variant
                 ELSE LET inner == DeType(VariantType(variant.v), tagged.v.rest, TRUE)
                      IN  IF inner.ok THEN Ok([variant |-> variant.v, inner |-> inner.v])
                          ELSE inner

DeType(ty, j, buffered) ==
    CASE ty.c = "prim" -> DePrim(ty.n, j, buffered)
      [] ty.c = "enum" -> DeEnum(ty.n, j, buffered)
      [] ty.c = "Option" -> DeOption(ty.of, j, buffered)
      [] ty.c = "Vec" -> DeVec(ty.of, j, buffered)
      [] ty.c = "array" -> DeArray(ty.of, ty.len, j, buffered)
      [] ty.c = "HashMap" -> DeHashMap(ty.of, j, buffered)
      [] ty.c = "Resource" -> DeResource(j)
      [] IsStruct(ty) -> DeStruct(ty, j, buffered)

(***************************************************************************)
(* Serialize                                                               *)
(***************************************************************************)
RECURSIVE SerType(_, _)

SerEnum(n, v) ==
    LET vs == EnumVariants(n)
    IN  JStr(WireName(vs[CHOOSE i \in DOMAIN vs : Text(vs[i]) = v]))

SerPrim(n, v) ==
    CASE n \in {"String", "DateTime<Utc>", "Url"} -> JStr(v)
      [] n \in {"u32", "u8"} -> JNum(v)
      [] n = "bool" -> JBool(v)
      [] n = "Value" -> v
      [] n = "()" -> JNull

SerOption(of, v) == IF v = None THEN JNull ELSE SerType(of, v[1])

SerStruct(ty, v) ==
    LET fs == Fields(ty)
    IN  JObj([key \in {fs[i].key : i \in DOMAIN fs} |->
                LET fld == fs[CHOOSE i \in DOMAIN fs : fs[i].key = key]
                IN  SerType(fld.ty, v[fld.f])])

\* Resource: the payload's map with the tag added.
SerResource(v) ==
    LET ident == ResourceVariants[CHOOSE i \in DOMAIN ResourceVariants :
                                     Text(ResourceVariants[i]) = v.variant]
    IN  Put(SerType(VariantType(v.variant), v.inner), "type", JStr(WireName(ident)))

SerType(ty, v) ==
    CASE ty.c = "prim" -> SerPrim(ty.n, v)
      [] ty.c = "enum" -> SerEnum(ty.n, v)
      [] ty.c = "Option" -> SerOption(ty.of, v)
      [] ty.c \in {"Vec", "array"} -> JArr([i \in DOMAIN v |-> SerType(ty.of, v[i])])
      [] ty.c = "HashMap" -> JObj([x \in DOMAIN v |-> SerType(ty.of, v[x])])
      [] ty.c = "Resource" -> SerResource(v)
      [] IsStruct(ty) -> SerStruct(ty, v)

(***************************************************************************)
(* Values a caller can construct, per resource kind.                       *)
(***************************************************************************)
D1 == "2017-01-01T00:00:00Z"
D2 == "2018-06-30T12:00:00Z"
U1 == "https://a.example/x.png"
U2 == "https://a.example/"

AvatarValue(s16, s192) ==
    [size16 |-> s16, size32 |-> U1, size48 |-> U1, size64 |-> U1, size96 |-> U1,
     size128 |-> U1, size192 |-> s192, size256 |-> U1, size384 |-> U1, size512 |-> U2]

ColorValue == [hex |-> "ff0000", rgb |-> <<255, 0, 0>>]

UserAttributesValue(s16, online) ==
    [name |-> "u", bio_html |-> "", num_followers |-> 3, num_stories |-> 1,
     num_blog_posts |-> 0, date_joined |-> D1, avatar |-> AvatarValue(s16, Some(U1)),
     color |-> ColorValue, date_last_online |-> online]

RefValue(type_, id) == [data |-> [type_ |-> type_, id |-> id]]

AttributeValues(kind) ==
    CASE kind = "BlogPost" ->
            {[title |-> "t", date_posted |-> D1, intro |-> intro, content_html |-> Some("<p>"),
              num_views |-> 7, num_comments |-> 0, site_post |-> tag # None,
              site_post_tag |-> tag, tags |-> <<"a", "b">>] :
                 intro \in {None, Some("")}, tag \in {None, Some(""), Some("news")}}
      [] kind = "Bookshelf" ->
            {[name |-> "b", privacy |-> privacy, description |-> "", color |-> "00ff00",
              icon |-> [name |-> "star", type_ |-> "font-awesome", data |-> "f005"],
              num_stories |-> 2, num_unread |-> 0, track_unread |-> TRUE, quick_add |-> FALSE,
              email_on_update |-> FALSE, date_created |-> D1, date_modified |-> D2,
              order |-> 2147483647] :
                 privacy \in {"Private", "Unlisted", "Public"}}
      [] kind = "Chapter" ->
            {[chapter_number |-> 1, title |-> "c", published |-> TRUE, num_views |-> 5,
              date_published |-> D1, date_modified |-> D2, content |-> content,
              content_html |-> None, authors_note_html |-> note,
              authors_note_position |-> position] :
                 content \in {None, Some(""), Some("text")}, note \in {None, Some("")},
                 position \in {"Top", "Bottom"}}
      [] kind = "Follow" -> {[date_followed |-> d] : d \in {D1, D2}}
      [] kind = "Group" ->
            {[name |-> "g", description |-> "", description_html |-> "", num_members |-> 4,
              num_stories |-> 0, nsfw |-> FALSE, open |-> TRUE, hidden |-> FALSE,
              date_created |-> D1, icon |-> AvatarValue(s16, s192)] :
                 s16 \in {None, Some(U1)}, s192 \in {None, Some(U2)}}
      [] kind = "GroupThread" ->
            {[title |-> "th", num_posts |-> 9, date_created |-> D1, date_last_posted |-> D2,
              sticky |-> sticky, locked |-> FALSE] : sticky \in BOOLEAN}
      [] kind = "PrivateMessage" ->
            {[subject |-> "s", content_html |-> "", date_sent |-> D1, read |-> read] :
                 read \in BOOLEAN}
      [] kind = "Story" ->
            {[title |-> "s", short_description |-> "", description |-> "d",
              description_html |-> "<p>d</p>", published |-> status = "Visible",
              status |-> status, submitted |-> TRUE, date_published |-> D1,
              date_modified |-> D2, date_updated |-> D2, num_views |-> 10,
              total_num_views |-> 20, num_words |-> 1000, num_comments |-> 1,
              color |-> ColorValue,
              cover_image |-> [thumbnail |-> U1, medium |-> U1, large |-> U1, full |-> U2],
              num_chapters |-> 1, rating |-> 90, completion_status |-> completion,
              content_rating |-> "Teen", num_likes |-> 9, num_dislikes |-> 1] :
                 status \in {"Visible", "NotVisible", "ApproveQueue", "PostQueue"},
                 completion \in {"Complete", "Hiatus"}}
      [] kind = "StoryTag" ->
            {[name |-> "tag", description |-> description, type_ |-> type_, num_stories |-> 6] :
                 description \in {None, Some("")}, type_ \in {"Character", "Genre"}}
      [] kind = "User" ->
            {UserAttributesValue(s16, online) :
                 s16 \in {None, Some(U1)}, online \in {None, Some(D2)}}

\* One relationship record per kind that has one; the unit for the two
\* kinds whose relationship type is ().
RelationshipValue(kind) ==
    CASE kind = "BlogPost" -> [author |-> RefValue("user", "5"), tagged_story |-> RefValue("story", "9")]
      [] kind = "Bookshelf" -> [user |-> RefValue("user", "5")]
      [] kind = "Chapter" -> [story |-> RefValue("story", "9")]
      [] kind = "Follow" -> [user |-> RefValue("user", "5"), following |-> RefValue("user", "6")]
      [] kind = "Group" -> [founder |-> RefValue("user", "5")]
      [] kind = "GroupThread" ->
            [creator |-> RefValue("user", "5"), group |-> RefValue("group", "2"),
             last_poster |-> RefValue("user", "6")]
      [] kind = "PrivateMessage" ->
            [sender |-> [data |-> UserAttributesValue(None, None)],
             receiver |-> [data |-> UserAttributesValue(Some(U1), Some(D2))]]
      [] kind = "Story" ->
            [author |-> RefValue("user", "5"),
             tags |-> [data |-> << [type_ |-> "story_tag", id |-> "1"], [type_ |-> "story_tag", id |-> "2"] >>]]
      [] kind \in {"StoryTag", "User"} -> UnitValue

LinkValues == {NoFields, [self |-> U1]}
MetaValues == {NoFields, [url |-> JStr("x")]}

TypedResourceValue(id, attributes, relationships, links, meta) ==
    [id |-> id, attributes |-> attributes, relationships |-> relationships,
     links |-> links, meta |-> meta]

ResourceValue(kind, inner) == [variant |-> kind, inner |-> inner]

\* Every value the round trip is tried on.
ValidResources ==
    UNION {{ResourceValue(kind, TypedResourceValue("7", a, r, l, m)) :
               a \in AttributeValues(kind),
               r \in {None, Some(RelationshipValue(kind))},
               l \in LinkValues, m \in MetaValues} : kind \in Kinds}

\* The first attribute value of a kind, for the records sent on the wire.
BaseAttributes(kind) == CHOOSE a \in AttributeValues(kind) : TRUE

BaseResource(kind, id) ==
    ResourceValue(kind, TypedResourceValue(id, BaseAttributes(kind),
                                           Some(RelationshipValue(kind)), NoFields, NoFields))

(***************************************************************************)
(* The program: a value is serialized, a body is deserialized into the     *)
(* type the caller asks for.                                               *)
(***************************************************************************)
NoValue == [variant |-> "none"]
NoResult == Err("pending")

BlogPostResponse == TypedApiResponse(BlogPost)
BookshelfResponse == TypedApiResponse(Bookshelf)
ChapterResponse == TypedApiResponse(Chapter)
GroupResponse == TypedApiResponse(Group)
PrivateMessageResponse == TypedApiResponse(PrivateMessage)
StoryResponse == TypedApiResponse(Story)
UserResponse == TypedApiResponse(User)

\* serde_json reading a body as a value of type ty.
from_json(ty, body) == DeType(ty, body, FALSE)

\* Application::do_request: the request is sent (which may fail), and the
\* body of the response is read as T.
do_request(ty) ==
    /\ pc = "received"
    /\ \E sent \in BOOLEAN :
          result' = IF sent THEN from_json(ty, wire) ELSE Err("send")
    /\ pc' = "done"
    /\ UNCHANGED <<target, wire, value, unit_from_empty_map>>

blog_post == target = "BlogPostResponse" /\ do_request(BlogPostResponse)
bookshelf == target = "BookshelfResponse" /\ do_request(BookshelfResponse)
chapter == target = "ChapterResponse" /\ do_request(ChapterResponse)
group == target = "GroupResponse" /\ do_request(GroupResponse)
private_message == target = "PrivateMessageResponse" /\ do_request(PrivateMessageResponse)
story == target = "StoryResponse" /\ do_request(StoryResponse)
user == target = "UserResponse" /\ do_request(UserResponse)

\* A body read as one of the other Deserialize types.
Deserialize(ty) ==
    /\ pc = "received"
    /\ result' = from_json(ty, wire)
    /\ pc' = "done"
    /\ UNCHANGED <<target, wire, value, unit_from_empty_map>>

DeserializeResource == target = "Resource" /\ Deserialize(ResourceT)
DeserializeApiResponse == target = "ApiResponse" /\ Deserialize(Struct("ApiResponse"))
DeserializeAvatar == target = "Avatar" /\ Deserialize(Avatar)
DeserializeEnum == target \in EnumNames /\ Deserialize(Enum(target))

\* A constructed Resource written out as JSON; the text is then a body to
\* read back.
SerializeResource ==
    /\ pc = "built"
    /\ wire' = SerType(ResourceT, value)
    /\ pc' = "received"
    /\ UNCHANGED <<target, value, result, unit_from_empty_map>>

(***************************************************************************)
(* The bodies the server is taken to send.                                 *)
(***************************************************************************)
MaxIncluded == 2

\* A resource record as the server sends it as top-level data, and the
\* same record as it appears inside included (no relationships).
DataRecord(kind, id) == SerType(ResourceT, BaseResource(kind, id))
IncludedRecord(kind, id) == Drop(DataRecord(kind, id), "relationships")

PutIn(j, outer, key, v) == Put(j, outer, Put(j.o[outer], key, v))
DropIn(j, outer, key) == Put(j, outer, Drop(j.o[outer], key))

KeysOf(fs) == {fs[i].key : i \in DOMAIN fs}
AttributeKeys(kind) == KeysOf(Fields(VariantType(kind).attr))
RelationshipKeys(kind) ==
    IF kind \in {"StoryTag", "User"} THEN {} ELSE KeysOf(Fields(VariantType(kind).rel))

WireNames == {WireName(ResourceVariants[i]) : i \in DOMAIN ResourceVariants}

\* What the type field is tried with.
TagInputs ==
    {JStr(s) : s \in WireNames \cup Kinds
                   \cup {"STORY", "blogpost", "groupThread", "group-thread", "users", ""}}
    \cup {JNull, JNum(1)}

TypeBodies ==
    {Put(DataRecord(kind, "7"), "type", tag) : kind \in Kinds, tag \in TagInputs}
    \cup {Drop(DataRecord(kind, "7"), "type") : kind \in Kinds}
    \cup {Drop(IncludedRecord(kind, "7"), "type") : kind \in Kinds}

\* A relationship record in which every field is a reference.
ReferenceRecord(keys) == JObj([x \in keys |-> SerType(Data(ResourceId), RefValue("user", "5"))])

RelationshipInputs ==
    {SerType(Option(VariantType(kind).rel), Some(RelationshipValue(kind))) : kind \in Kinds}
    \cup {ReferenceRecord({"sender", "receiver"}), EmptyObj, JNull, JStr("x"), JArr(<< >>)}

RelationshipBodies ==
    {Put(DataRecord(kind, "7"), "relationships", rel) :
        kind \in Kinds, rel \in RelationshipInputs}
    \cup {IncludedRecord(kind, "7") : kind \in Kinds}
    \cup UNION {{DropIn(DataRecord(kind, "7"), "relationships", key) :
                    key \in RelationshipKeys(kind)} : kind \in Kinds}

EnumWireNames ==
    UNION {{WireName(EnumVariants(n)[i]) : i \in DOMAIN EnumVariants(n)} : n \in EnumNames}

EnumInputs ==
    {JStr(s) : s \in EnumWireNames
                   \cup {"ApproveQueue", "approvequeue", "APPROVE_QUEUE", "approve-queue",
                         "approveQueue", "Top", "TOP", "pending", "unknown", "other", ""}}
    \cup {JNull, JNum(0), JObj([top |-> JNull]), JObj([top |-> EmptyObj]),
          JObj([top |-> JNull, bottom |-> JNull]), JObj([pending |-> JNull])}

AttributeInputs == {JNull, JStr(""), JStr("text"), JNum(0)}

EnumKeys(kind) ==
    LET fs == Fields(VariantType(kind).attr)
    IN  {fs[i].key : i \in {x \in DOMAIN fs : fs[x].ty.c = "enum"}}

AttributeBodies ==
    UNION {{PutIn(DataRecord(kind, "7"), "attributes", key, v) :
               key \in AttributeKeys(kind), v \in AttributeInputs} : kind \in Kinds}
    \cup UNION {{DropIn(DataRecord(kind, "7"), "attributes", key) :
                    key \in AttributeKeys(kind)} : kind \in Kinds}
    \cup UNION {{PutIn(DataRecord(kind, "7"), "attributes", key, v) :
                    key \in EnumKeys(kind), v \in EnumInputs} : kind \in Kinds}
    \cup {Drop(DataRecord(kind, "7"), "attributes") : kind \in Kinds}

AvatarKeys == KeysOf(AvatarFields)

AvatarInputs ==
    {JObj([x \in keys |-> JStr(U1)]) : keys \in SUBSET AvatarKeys}
    \cup {JObj([x \in AvatarKeys |-> IF x = key THEN v ELSE JStr(U1)]) :
             key \in AvatarKeys, v \in {JNull, JStr("not a url"), JStr("https://a.example"), JNum(16)}}
    \cup {JNull, JArr(<< >>)}

NestedAvatarBodies ==
    {PutIn(DataRecord("User", "7"), "attributes", "avatar", a) : a \in {JObj([x \in AvatarKeys \ {key} |-> JStr(U1)]) : key \in AvatarKeys}}
    \cup {PutIn(DataRecord("Group", "7"), "attributes", "icon", a) : a \in {JObj([x \in AvatarKeys \ {key} |-> JStr(U1)]) : key \in AvatarKeys}}

OtherBodies ==
    {Put(DataRecord(kind, "7"), "links", JObj([self |-> JStr(u)])) :
        kind \in {"Story", "User"}, u \in {"https://a.example", "HTTPS://A.example/y", "/story/7"}}
    \cup {Put(DataRecord(kind, "7"), "id", v) : kind \in {"Story", "User"}, v \in {JNum(7), JNull}}
    \cup {Drop(DataRecord(kind, "7"), "id") : kind \in {"Story", "User"}}
    \cup {PutIn(DataRecord("Chapter", "7"), "attributes", "date_published", JStr("2017-01-01T01:00:00+01:00")),
          Put(DataRecord("Story", "7"), "extra", JStr("ignored")),
          JArr(<<JStr("follow"), JStr("7"), JObj([date_followed |-> JStr(D1)])>>),
          JArr(<<JStr("follow"), JStr("7"), JArr(<<JStr(D1)>>), JNull>>),
          JArr(<<JStr("follow"), JStr("7")>>),
          JArr(<< >>), JNull, JStr("story")}

ResourceBodies ==
    TypeBodies \cup RelationshipBodies \cup AttributeBodies \cup NestedAvatarBodies \cup OtherBodies

\* The response envelope: data, included, and the echo of the request.
Envelope(data, included) ==
    JObj([data |-> data, included |-> JArr(included), uri |-> JStr("/api/v2/stories/9"),
          method |-> JStr("GET"), debug |-> JObj([duration |-> JStr("0.01")])])

IncludedElements ==
    {IncludedRecord("User", "5"), IncludedRecord("Story", "9"),
     Put(IncludedRecord("User", "5"), "type", JStr("author")),
     DropIn(IncludedRecord("User", "5"), "attributes", "name"),
     DataRecord("Chapter", "3")}

IncludedInputs == UNION {[1..n -> IncludedElements] : n \in 0..MaxIncluded}

EnvelopeEdits(e) ==
    {Drop(e, key) : key \in {"data", "included", "uri", "method", "debug"}}
    \cup {Put(e, "included", JNull), Put(e, "included", EmptyObj), Put(e, "uri", JNull)}

ApiResponseBodies ==
    {Envelope(data, included) :
        data \in {DataRecord("Story", "9"), IncludedRecord("User", "5"),
                  Put(DataRecord("Story", "9"), "type", JStr("stories")),
                  DropIn(DataRecord("Story", "9"), "attributes", "title")},
        included \in IncludedInputs}
    \cup EnvelopeEdits(Envelope(DataRecord("Story", "9"), <<IncludedRecord("User", "5")>>))
    \cup {JNull, JArr(<< >>)}

\* The kind each Application method asks for.
ResponseKind(name) ==
    CASE name = "BlogPostResponse" -> "BlogPost"
      [] name = "BookshelfResponse" -> "Bookshelf"
      [] name = "ChapterResponse" -> "Chapter"
      [] name = "GroupResponse" -> "Group"
      [] name = "PrivateMessageResponse" -> "PrivateMessage"
      [] name = "StoryResponse" -> "Story"
      [] name = "UserResponse" -> "User"

ResponseNames ==
    {"BlogPostResponse", "BookshelfResponse", "ChapterResponse", "GroupResponse",
     "PrivateMessageResponse", "StoryResponse", "UserResponse"}

TypedDataInputs(kind) ==
    {DataRecord(other, "7") : other \in Kinds}
    \cup {Put(DataRecord(kind, "7"), "type", tag) : tag \in TagInputs}
    \cup {Drop(DataRecord(kind, "7"), "type"), IncludedRecord(kind, "7"),
          Put(DataRecord(kind, "7"), "relationships", EmptyObj),
          Put(DataRecord(kind, "7"), "relationships", JNull),
          Drop(DataRecord(kind, "7"), "attributes")}

TypedResponseBodies(name) ==
    {Envelope(data, included) :
        data \in TypedDataInputs(ResponseKind(name)),
        included \in {<< >>, <<IncludedRecord("User", "5")>>,
                      <<IncludedRecord("User", "5"), Put(IncludedRecord("User", "5"), "type", JStr("author"))>>}}
    \cup EnvelopeEdits(Envelope(DataRecord(ResponseKind(name), "7"), << >>))

Bodies ==
    {[target |-> "Resource", wire |-> w] : w \in ResourceBodies}
    \cup {[target |-> "ApiResponse", wire |-> w] : w \in ApiResponseBodies}
    \cup UNION {{[target |-> name, wire |-> w] : w \in TypedResponseBodies(name)} : name \in ResponseNames}
    \cup {[target |-> "Avatar", wire |-> w] : w \in AvatarInputs}
    \cup {[target |-> n, wire |-> w] : n \in EnumNames, w \in EnumInputs}

(***************************************************************************)
(* Specification                                                           *)
(***************************************************************************)
Init ==
    /\ result = NoResult
    /\ unit_from_empty_map \in BOOLEAN
    /\ \/ /\ pc = "built"
          /\ target = "Resource"
          /\ value \in ValidResources
          /\ wire = JNull
       \/ /\ pc = "received"
          /\ value = NoValue
          /\ \E b \in Bodies : target = b.target /\ wire = b.wire

Next ==
    \/ SerializeResource
    \/ DeserializeResource
    \/ DeserializeApiResponse
    \/ DeserializeAvatar
    \/ DeserializeEnum
    \/ blog_post
    \/ bookshelf
    \/ chapter
    \/ group
    \/ private_message
    \/ story
    \/ user

Spec == Init /\ [][Next]_vars

(***************************************************************************)
(* Properties                                                              *)
(***************************************************************************)
\* The ten discriminators and the variant each names.
TypeNames ==
    [blog_post |-> "BlogPost", bookshelf |-> "Bookshelf", chapter |-> "Chapter",
     follow |-> "Follow", group |-> "Group", group_thread |-> "GroupThread",
     private_message |-> "PrivateMessage", story |-> "Story", story_tag |-> "StoryTag",
     user |-> "User"]

\* The body was read (the request did not fail in transport).
Sent == result.ok \/ result.e # "send"

\* A body read through the Resource union, the body being a JSON object.
ReadAsResource == pc = "done" /\ target = "Resource" /\ wire.k = "obj"

\* The record names one of the ten kinds.
Typed == Has(wire, "type") /\ wire.o["type"].k = "str" /\ wire.o["type"].s \in DOMAIN TypeNames
WireKind == TypeNames[wire.o["type"].s]

\* Apart from its discriminator the record is one a valid value of the
\* kind serializes to.
RestValidFor(kind) ==
    \/ Drop(wire, "type") = Drop(DataRecord(kind, "7"), "type")
    \/ value # NoValue /\ value.variant = kind /\ wire = SerType(ResourceT, value)

\* C1: decoding the encoding of any validly constructed Resource r gives r
\* back: the same variant, id, attributes, relationships, links and meta.
RoundTrip ==
    (pc = "done" /\ value # NoValue) => (result.ok /\ result.v = value)

\* C2: through the Resource union a record decodes only when its type is
\* exactly one of the ten snake_case names, and then to the variant of that
\* name; with such a type and the rest of the record valid for the kind the
\* decode succeeds.
DiscriminatorExhaustive ==
    ReadAsResource =>
        /\ result.ok => (Typed /\ result.v.variant = WireKind)
        /\ (Typed /\ RestValidFor(WireKind)) => result.ok

DiscriminatorWitness ==
    /\ ReadAsResource
    /\ Typed
    /\ wire.o["type"].s = "group_thread"
    /\ value = NoValue
    /\ result.ok
    /\ result.v.variant = "GroupThread"

\* The fields of each kind's relationship record.
RelationshipFieldNames ==
    [BlogPost |-> {"author", "tagged_story"}, Bookshelf |-> {"user"}, Chapter |-> {"story"},
     Follow |-> {"user", "following"}, Group |-> {"founder"},
     GroupThread |-> {"creator", "group", "last_poster"},
     PrivateMessage |-> {"sender", "receiver"}, Story |-> {"author", "tags"},
     StoryTag |-> {}, User |-> {}]

\* A record that is valid for the kind it names, whatever its
\* relationships field holds.
ValidButRelationships ==
    /\ ReadAsResource
    /\ Typed
    /\ Drop(wire, "relationships") = IncludedRecord(WireKind, "7")

OwnRelationships(kind) == SerType(VariantType(kind).rel, RelationshipValue(kind))

\* C3 as claimed: relationships absent decodes to None, and relationships
\* present, the empty object included, decodes to Some.
RelationshipPresence_AsClaimed ==
    ValidButRelationships =>
        /\ ~Has(wire, "relationships") => (result.ok /\ result.v.inner.relationships = None)
        /\ (Has(wire, "relationships")
              /\ wire.o.relationships \in {EmptyObj, OwnRelationships(WireKind)} \ {JNull})
           => (result.ok /\ result.v.inner.relationships # None)

\* C3, amended: relationships absent or null decodes to None; for the eight
\* kinds with a relationship record a relationships object decodes to Some
\* when it holds the kind's whole record and fails the decode when it lacks
\* one of its fields (so the empty object fails); for User and StoryTag only
\* the empty object can give Some, and only where serde reads a unit from an
\* empty map; Some never comes from an absent or null field.
RelationshipPresence ==
    ValidButRelationships =>
        LET present == Has(wire, "relationships")
            rel == wire.o.relationships
            names == RelationshipFieldNames[WireKind]
            unit == WireKind \in {"User", "StoryTag"}
        IN  /\ (~present \/ rel = JNull) =>
                  (result.ok /\ result.v.inner.relationships = None)
            /\ (present /\ rel.k \notin {"obj", "null"}) => ~result.ok
            /\ (present /\ ~unit /\ rel.k = "obj" /\ ~(names \subseteq DOMAIN rel.o)) => ~result.ok
            /\ (present /\ ~unit /\ rel.k = "obj"
                  /\ \A x \in names : x \in DOMAIN rel.o /\ rel.o[x] = OwnRelationships(WireKind).o[x])
               => (result.ok /\ result.v.inner.relationships = Some(RelationshipValue(WireKind)))
            /\ (present /\ unit /\ rel.k = "obj") =>
                  /\ result.ok <=> (unit_from_empty_map /\ rel = EmptyObj)
                  /\ result.ok => result.v.inner.relationships = Some(UnitValue)
            /\ (result.ok /\ result.v.inner.relationships # None) => (present /\ rel # JNull)

RelationshipPresenceWitness ==
    /\ ValidButRelationships
    /\ WireKind = "Story"
    /\ Has(wire, "relationships")
    /\ wire.o.relationships = EmptyObj
    /\ ~result.ok
    /\ result.e = "missing field author"

\* C4: every field of every decoded relationship record is a (kind, id)
\* reference or a sequence of such references.
IsReference(x) == DOMAIN x = {"type_", "id"}

RelationshipsAreReferences ==
    (ReadAsResource /\ result.ok /\ result.v.inner.relationships # None
       /\ result.v.variant \notin {"User", "StoryTag"})
    => LET fs == Fields(VariantType(result.v.variant).rel)
           rel == result.v.inner.relationships[1]
       IN  \A i \in DOMAIN fs :
              IF fs[i].ty.of.c = "Vec"
              THEN \A e \in DOMAIN rel[fs[i].f].data : IsReference(rel[fs[i].f].data[e])
              ELSE IsReference(rel[fs[i].f].data)

\* A body read as a response envelope: through ApiResponse or through
\* one of the Application methods.
ReadAsEnvelope ==
    /\ pc = "done"
    /\ target \in ResponseNames \cup {"ApiResponse"}
    /\ Sent
    /\ wire.k = "obj"

\* The type the envelope's data is read as.
DataType == IF target = "ApiResponse" THEN ResourceT ELSE VariantType(ResponseKind(target))

\* An included element no kind accepts: its type names no kind, or a
\* required attribute is missing.
BadElement(j) ==
    \/ j.k # "obj"
    \/ ~Has(j, "type")
    \/ j.o["type"] \notin {JStr(s) : s \in DOMAIN TypeNames}
    \/ ~Has(j, "attributes")
    \/ (j.o["type"] = JStr("user") /\ ~Has(j.o.attributes, "name"))

\* C6: an envelope decodes as a whole or not at all: it fails when data or
\* any one element of included fails to decode, and on success included
\* holds the decoded resource of every wire element, in order.
EnvelopeAllOrNothing ==
    (ReadAsEnvelope /\ Has(wire, "included") /\ wire.o.included.k = "arr") =>
        LET inc == wire.o.included.a
        IN  /\ (\E i \in DOMAIN inc : BadElement(inc[i]) \/ ~DeResource(inc[i]).ok) => ~result.ok
            /\ (Has(wire, "data") /\ ~from_json(DataType, wire.o.data).ok) => ~result.ok
            /\ result.ok =>
                  /\ Len(result.v.included) = Len(inc)
                  /\ \A i \in DOMAIN inc :
                        /\ result.v.included[i].variant = TypeNames[inc[i].o["type"].s]
                        /\ result.v.included[i].inner.id = inc[i].o.id.s
                        /\ Ok(result.v.included[i]) = DeResource(inc[i])

EnvelopeWitness ==
    /\ ReadAsEnvelope
    /\ target = "ApiResponse"
    /\ wire = Envelope(DataRecord("Story", "9"),
                       <<IncludedRecord("User", "5"),
                         Put(IncludedRecord("User", "5"), "type", JStr("author"))>>)
    /\ result = Err("unknown variant")

\* The wire names of each enumeration and the member each decodes to.
EnumWire ==
    [Position |-> [top |-> "Top", bottom |-> "Bottom"],
     Privacy |-> [private |-> "Private", unlisted |-> "Unlisted", public |-> "Public"],
     PublishStatus |-> [visible |-> "Visible", not_visible |-> "NotVisible",
                        approve_queue |-> "ApproveQueue", post_queue |-> "PostQueue"],
     CompletionStatus |-> [incomplete |-> "Incomplete", complete |-> "Complete",
                           hiatus |-> "Hiatus", cancelled |-> "Cancelled"],
     ContentRating |-> [everyone |-> "Everyone", teen |-> "Teen", mature |-> "Mature"],
     TagType |-> [character |-> "Character", genre |-> "Genre", rating |-> "Rating",
                  content |-> "Content", series |-> "Series", warning |-> "Warning",
                  universe |-> "Universe"]]

\* The enumerated attributes: kind, key on the wire, field, enumeration.
EnumAttributes ==
    {<<"Bookshelf", "privacy", "privacy", "Privacy">>,
     <<"Chapter", "authors_note_position", "authors_note_position", "Position">>,
     <<"Story", "status", "status", "PublishStatus">>,
     <<"Story", "completion_status", "completion_status", "CompletionStatus">>,
     <<"Story", "content_rating", "content_rating", "ContentRating">>,
     <<"StoryTag", "type", "type_", "TagType">>}

\* The record is valid for its kind but for what the attribute key holds.
ValidButAttribute(key) ==
    /\ ReadAsResource
    /\ Typed
    /\ Has(wire, "attributes")
    /\ wire.o.attributes.k = "obj"
    /\ DropIn(wire, "attributes", key) = DropIn(DataRecord(WireKind, "7"), "attributes", key)

\* C7: a wire string decodes to a member of an enumeration exactly when it
\* is, case-sensitively, the snake_case name of one of its variants, and
\* then to that variant; any other string fails the decode, of the value
\* and of the record that holds it.
EnumFidelity ==
    /\ (pc = "done" /\ target \in EnumNames /\ wire.k = "str") =>
          /\ result.ok <=> wire.s \in DOMAIN EnumWire[target]
          /\ result.ok => result.v = EnumWire[target][wire.s]
    /\ \A a \in EnumAttributes :
          (ValidButAttribute(a[2]) /\ WireKind = a[1] /\ Has(wire.o.attributes, a[2])
             /\ wire.o.attributes.o[a[2]].k = "str")
          => LET s == wire.o.attributes.o[a[2]].s
             IN  /\ result.ok <=> s \in DOMAIN EnumWire[a[4]]
                 /\ result.ok => result.v.inner.attributes[a[3]] = EnumWire[a[4]][s]

EnumFidelityWitness ==
    /\ pc = "done"
    /\ target = "PublishStatus"
    /\ wire = JStr("approve_queue")
    /\ result = Ok("ApproveQueue")

\* The sizes an avatar must hold, and the two it may lack.
MandatorySizes == {"32", "48", "64", "96", "128", "256", "384", "512"}
OptionalSizes == {"16", "192"}

\* Every value the payload holds is the text of a URL.
UrlsOnly(j) == j.k = "obj" /\ \A x \in DOMAIN j.o : j.o[x].k = "str" /\ UrlParse(j.o[x].s).ok

AvatarAsClaimed(j, r) ==
    /\ r.ok <=> MandatorySizes \subseteq DOMAIN j.o
    /\ r.ok =>
          /\ \A x \in MandatorySizes : r.v["size" \o x] = UrlParse(j.o[x].s).v
          /\ \A x \in OptionalSizes :
                r.v["size" \o x] = IF x \in DOMAIN j.o THEN Some(UrlParse(j.o[x].s).v) ELSE None

\* C8: an avatar payload of URLs decodes exactly when it holds the eight
\* mandatory sizes; 16 and 192 may each be missing and are then absent in
\* the result, every size that is present being kept. The same holds for
\* the avatar of a user and the icon of a group.
SparseAvatar ==
    /\ (pc = "done" /\ target = "Avatar" /\ UrlsOnly(wire)) => AvatarAsClaimed(wire, result)
    /\ \A a \in {<<"User", "avatar">>, <<"Group", "icon">>} :
          (ValidButAttribute(a[2]) /\ WireKind = a[1] /\ Has(wire.o.attributes, a[2])
             /\ UrlsOnly(wire.o.attributes.o[a[2]]))
          => AvatarAsClaimed(wire.o.attributes.o[a[2]],
                             IF result.ok THEN Ok(result.v.inner.attributes[a[2]]) ELSE result)

SparseAvatarWitness ==
    /\ pc = "done"
    /\ target = "Avatar"
    /\ UrlsOnly(wire)
    /\ DOMAIN wire.o = MandatorySizes
    /\ result.ok
    /\ result.v.size16 = None
    /\ result.v.size192 = None
    /\ result.v.size32 = U1

\* The attributes that are optional strings on the wire.
OptionalStrings ==
    {<<"BlogPost", "intro">>, <<"BlogPost", "content_html">>, <<"BlogPost", "site_post_tag">>,
     <<"Chapter", "content">>, <<"Chapter", "content_html">>, <<"Chapter", "authors_note_html">>,
     <<"StoryTag", "description">>}

\* C9: an optional string attribute that is absent on the wire decodes to
\* absent, one that is the empty string decodes to present and empty, and
\* the two results differ: the decoded value is absent only when the wire
\* holds no string.
OptionalFieldDistinction ==
    \A a \in OptionalStrings :
        (ValidButAttribute(a[2]) /\ WireKind = a[1]) =>
            LET present == Has(wire.o.attributes, a[2])
                j == wire.o.attributes.o[a[2]]
            IN  /\ ~present => (result.ok /\ result.v.inner.attributes[a[2]] = None)
                /\ (present /\ j = JStr("")) =>
                      (result.ok /\ result.v.inner.attributes[a[2]] = Some("")
                         /\ result.v.inner.attributes[a[2]] # None)
                /\ (present /\ j.k = "str") =>
                      (result.ok /\ result.v.inner.attributes[a[2]] = Some(j.s))
                /\ (result.ok /\ result.v.inner.attributes[a[2]] = None) =>
                      (~present \/ j = JNull)

OptionalFieldWitness ==
    /\ ValidButAttribute("content")
    /\ WireKind = "Chapter"
    /\ Has(wire.o.attributes, "content")
    /\ wire.o.attributes.o.content = JStr("")
    /\ result.ok
    /\ result.v.inner.attributes.content = Some("")

\* A body read by one of the Application methods, the envelope whole and
\* its data a JSON object.
ReadAsTyped ==
    /\ pc = "done"
    /\ target \in ResponseNames
    /\ Sent
    /\ wire.k = "obj"
    /\ Has(wire, "data")
    /\ wire.o.data.k = "obj"
    /\ Has(wire, "included")
    /\ wire.o.included.k = "arr"
    /\ wire = Envelope(wire.o.data, wire.o.included.a)

\* C10 as claimed: read as the concrete kind K, a data record whose type is
\* a string other than K's name fails the decode.
TypedDiscriminatorMatched ==
    (ReadAsTyped /\ Has(wire.o.data, "type") /\ wire.o.data.o["type"].k = "str"
       /\ (wire.o.data.o["type"].s \notin DOMAIN TypeNames
             \/ TypeNames[wire.o.data.o["type"].s] # ResponseKind(target)))
    => ~result.ok

\* C10, amended: read as the concrete kind K, the type of the data record
\* is not read: a record whose other fields are valid for K decodes, to the
\* same value, whatever its type holds (K's name, another kind's, an
\* unknown string, a non-string) and when it has none.
TypedDecodeIgnoresType ==
    (ReadAsTyped
       /\ Drop(wire.o.data, "type") = Drop(DataRecord(ResponseKind(target), "7"), "type")
       /\ \A i \in DOMAIN wire.o.included.a : ~BadElement(wire.o.included.a[i]))
    => /\ result.ok
       /\ result.v.data =
             [BaseResource(ResponseKind(target), "7").inner EXCEPT
                 !.relationships = IF ResponseKind(target) = "User" THEN None ELSE @]

TypedDecodeWitness ==
    /\ ReadAsTyped
    /\ target = "BlogPostResponse"
    /\ wire.o.data = Put(DataRecord("BlogPost", "7"), "type", JStr("story"))
    /\ result.ok
    /\ result.v.data.attributes.title = "t"

====
